---- MODULE Spec2Model ----
(***************************************************************************)
(* A model of src/engine.py: the EventManager (a registry of listeners     *)
(* held in a WeakKeyDictionary, with RegisterListener, UnregisterListener  *)
(* and the re-entrant broadcast Post), the three listeners of the program  *)
(* (TickController, PygameController, PygameView) and TickController.Run.  *)
(*                                                                         *)
(* The program is single-threaded; the only control structure that needs   *)
(* care is the call stack: a Notify called by Post may itself call Post,   *)
(* RegisterListener or UnregisterListener.  The stack is modelled          *)
(* explicitly: a Run frame at the bottom (when Run() is executing) and one *)
(* Post frame per Post call in progress.                                   *)
(*                                                                         *)
(* engine.py runs unchanged under Python 2 and Python 3, and the two differ *)
(* in what Post iterates: WeakKeyDictionary.keys() is a list of strong     *)
(* references in Python 2 and a live generator over the dictionary in      *)
(* Python 3 (which raises RuntimeError when the dictionary changes size    *)
(* and defers the removal of reclaimed entries while it runs).  The model  *)
(* keeps both: keysIsList is chosen in the initial state.                  *)
(*                                                                         *)
(* Two specifications: Spec is a harness calling the EventManager          *)
(* (register, unregister, post, release a listener) with listeners whose   *)
(* Notify may call back into it; SpecRun is main(): the three listeners    *)
(* of the program and a recording listener, and TickController.Run().      *)
(***************************************************************************)
EXTENDS Integers, Sequences, FiniteSets, TLC

\* ------------------------------------------------------------------ bounds
MaxIter == 2        \* iterations of Run's loop that are explored per Run() call
MaxDepth == 2       \* Post calls in progress at the same time (re-entrancy)
MaxPolled == 2      \* QUIT entries one pygame.event.get() may return
MaxQuitPosts == 2   \* Quit events posted by listeners per Run() call
MaxNested == 1      \* Quit events posted by listeners per Post of the harness
MaxRuns == 2        \* invocations of TickController.Run()
MaxOther == 1       \* entries of other types one pygame.event.get() may return

\* --------------------------------------------------------------- universe
Spinner == "spinner"     \* the TickController of main()
Pygamec == "pygamec"     \* the PygameController of main()
Pygamev == "pygamev"     \* the PygameView of main()
Tests == {"A", "B"}      \* listeners of a test harness (any object with Notify)
Listener == {Spinner, Pygamec, Pygamev} \cup Tests
None == "none"

Update == "Update"
Draw == "Draw"
Quit == "Quit"
QuitCleanup == "QuitCleanup"
Event == {Update, Draw, Quit, QuitCleanup}

\* What a test listener's Notify may do: nothing (a recording listener), post a
\* Quit, register or unregister a listener, release the last owner of one, or
\* raise an exception.
Faulty == {<<"raise", None>>}
Plain == {<<"none", None>>, <<"postQuit", None>>}
Mutating == {<<k, x>> : k \in {"register", "unregister", "drop"}, x \in Listener}

VARIABLES
  keysIsList,   \* TRUE: WeakKeyDictionary.keys() returns a list (Python 2);
                \* FALSE: it is a live generator over the dictionary (Python 3)
  listeners,    \* the keys of EventManager.listeners (its underlying data)
  alive,        \* the listener objects that still have an owner outside the bus
  running,      \* TickController.running
  display,      \* the pygame display of PygameView: "init" | "quit"
  stack,        \* the call stack: <<Run frame?, Post frame, Post frame, ...>>
  err,          \* the exception the last top-level call ended with, or "none"
  \* ---- history (observers; the program does not read them)
  last,         \* what the last step did (see Label)
  finished,     \* the Post frames that ended last, since the last harness call
  unregistered, \* listeners unregistered and not registered again since
  runLog,       \* what the current/last Run() did: "Update","Draw","tick",...
  got,          \* got[l][e]: Notify(e) calls l received since Run() was invoked
  iter,         \* iterations of the loop started by the current/last Run()
  quitIter,     \* iteration of the current Run() in which Quit first reached it
  quitPosts,    \* Quit events posted by listeners in the current top-level call
  runs,         \* invocations of Run() so far
  obs           \* what the collaborators did (see NoObs)

vars == <<keysIsList, listeners, alive, running, display, stack, err, last,
          finished, unregistered, runLog, got, iter, quitIter, quitPosts, runs,
          obs>>

\* ----------------------------------------------------------------- frames
PostFrames == {i \in 1..Len(stack) : stack[i].op = "Post"}
Depth == Cardinality(PostFrames)
InRun == Len(stack) > 0 /\ stack[1].op = "Run"
Top == stack[Len(stack)]
AtTop(op) == Len(stack) > 0 /\ Top.op = op

\* What keys() yields: the registered listeners that are still alive.
Registered == listeners \cap alive

\* A live generator is iterating the dictionary (the _IterationGuard is held).
Iterating == ~keysIsList /\ PostFrames # {}

\* op: "Call" (a call of the harness), "Notify" (Post called arg.Notify(event)),
\* "Return"/"Raise" (a Post ended), "Run" (a statement of Run).  call/on: the
\* EventManager method that step called, and its argument.
\* was: whether `on` was registered when the call was made.
Label(op, arg, e, call, on) ==
  [op |-> op, arg |-> arg, event |-> e, call |-> call, on |-> on,
   was |-> on \in Registered]

ZeroCount == [l \in Listener |-> 0]

\* Observers of the collaborators, counted while Run() executes:
\* polls: calls of pygame.event.get(); polled: QUIT entries they returned;
\* paints: drawBackground() calls; teardowns: pygame.quit() calls (never reset);
\* quitSeen: a Quit event has reached TickController.Notify (ever);
\* fault: the exception a Notify raised in the current top-level call.
NoObs == [polls |-> 0, polled |-> 0, paints |-> 0, teardowns |-> 0,
          quitSeen |-> FALSE, fault |-> "none"]

RunFrame == [op |-> "Run", pc |-> "while", event |-> None, keys |-> {}, todo |-> {},
             used |-> 0, cur |-> None, quits |-> 0, count |-> ZeroCount,
             entry |-> {}, mut |-> FALSE, excl |-> {}, gone |-> {}, posts |-> 0]

\* Post(event) entered: `for listener in self.listeners.keys()` is about to
\* start.  keys/todo: the listeners keys() will yield; used: the size of the
\* dictionary the iterator remembers; cur: the loop variable `listener`.
\* count, entry, mut, excl, gone observe the call: Notify calls made per
\* listener, the listeners registered and alive when the call began, whether a
\* Notify called Register/UnregisterListener meanwhile, the listeners that were
\* unregistered when the call began (and not registered again since), and the
\* listeners that had been reclaimed when it began; posts: the Post calls made
\* by the Notify calls of this Post.
Observed == [count |-> ZeroCount, entry |-> Registered, mut |-> FALSE,
             excl |-> unregistered, gone |-> Listener \ alive, posts |-> 0]

Iteration(e, ks) ==
  [op |-> "Post", pc |-> "iter", event |-> e, keys |-> ks, todo |-> ks,
   used |-> Cardinality(listeners), cur |-> None, quits |-> 0,
   count |-> Observed.count, entry |-> Observed.entry, mut |-> Observed.mut,
   excl |-> Observed.excl, gone |-> Observed.gone, posts |-> Observed.posts]

\* (mutant of PostFrame) the broadcast reaches every live object, registered or not
PostFrameAll(e) == Iteration(e, alive)

PostFrame(e) == Iteration(e, Registered)

Push(s, f) == Append(s, f)
Pop(s) == SubSeq(s, 1, Len(s) - 1)
SetTop(s, f) == [s EXCEPT ![Len(s)] = f]


\* ------------------------------------------------------------ EventManager
\* (mutant of RegisterListener) registering a registered listener loses its entry
RegisterToggle(l) == IF l \in listeners THEN listeners \ {l} ELSE listeners \cup {l}

\* EventManager.RegisterListener: self.listeners[ listener ] = 1
RegisterListener(l) == listeners \cup {l}

\* `del self.listeners[ listener ]`: KeyError when the key is absent.
DelItem(l) == IF l \in listeners
                THEN [data |-> listeners \ {l}, exc |-> "none"]
                ELSE [data |-> listeners, exc |-> "KeyError"]

\* (mutant of UnregisterListener) the membership test is inverted
UnregisterInverted(l) == IF l \notin Registered THEN DelItem(l)
                         ELSE [data |-> listeners, exc |-> "none"]

\* (mutant of UnregisterListener) the membership test is missing
UnregisterUnguarded(l) == DelItem(l)

\* EventManager.UnregisterListener:
\*   if listener in self.listeners.keys(): del self.listeners[ listener ]
UnregisterListener(l) == IF l \in Registered THEN DelItem(l)
                         ELSE [data |-> listeners, exc |-> "none"]

\* The objects a frame of the stack refers to strongly: each Post's loop variable
\* `listener`, the list keys() returned (when it is a list), and Run's self.
Held ==
  UNION {({stack[i].cur} \ {None}) \cup (IF keysIsList THEN stack[i].keys ELSE {})
         : i \in PostFrames}
  \cup (IF InRun THEN {Spinner} ELSE {})

\* (mutant of Reclaimed) the registry keeps the entry of a reclaimed listener
ReclaimedNever(l) == listeners

\* The weak reference's callback when the last owner of l lets go: the entry is
\* removed at once, or left for _commit_removals while a generator iterates.
Reclaimed(l) == IF Iterating THEN listeners ELSE listeners \ {l}

\* _IterationGuard.__exit__ of the outermost iteration: _commit_removals.
Committed(ls) == ls \cap alive

\* Every Post in progress has seen a Notify call Register/UnregisterListener;
\* the listeners in `back` are registered again.
MarkMut(s, back) ==
  [i \in DOMAIN s |-> IF s[i].op = "Post"
                         THEN [s[i] EXCEPT !.mut = TRUE, !.excl = @ \ back]
                         ELSE s[i]]

\* ------------------------------------------------- calls of the test harness
Idle == stack = << >>

CallRegister(l) ==
  /\ Idle /\ l \in alive
  /\ listeners' = RegisterListener(l)
  /\ unregistered' = unregistered \ {l}
  /\ err' = "none" /\ finished' = << >> /\ quitPosts' = 0
  /\ last' = Label("Call", None, None, "Register", l)
  /\ obs' = [obs EXCEPT !.fault = "none"]
  /\ UNCHANGED <<keysIsList, alive, running, display, stack, runLog,
                 got, iter, quitIter, runs>>

CallUnregister(l) ==
  /\ Idle /\ l \in alive
  /\ listeners' = UnregisterListener(l).data
  /\ unregistered' = unregistered \cup {l}
  /\ err' = UnregisterListener(l).exc /\ finished' = << >> /\ quitPosts' = 0
  /\ last' = Label("Call", None, None, "Unregister", l)
  /\ obs' = [obs EXCEPT !.fault = "none"]
  /\ UNCHANGED <<keysIsList, alive, running, display, stack, runLog,
                 got, iter, quitIter, runs>>

CallPost(e) ==
  /\ Idle
  /\ stack' = <<PostFrame(e)>>
  /\ err' = "none" /\ finished' = << >> /\ quitPosts' = 0
  /\ last' = Label("Call", None, e, "Post", None)
  /\ obs' = [obs EXCEPT !.fault = "none"]
  /\ UNCHANGED <<keysIsList, listeners, alive, running, display,
                 unregistered, runLog, got, iter, quitIter, runs>>

\* The harness lets go of the last reference to l.
Release(l) ==
  /\ Idle /\ l \in alive
  /\ alive' = alive \ {l}
  /\ listeners' = Reclaimed(l)
  /\ err' = "none" /\ finished' = << >> /\ quitPosts' = 0
  /\ last' = Label("Call", None, None, "Release", l)
  /\ obs' = [obs EXCEPT !.fault = "none"]
  /\ UNCHANGED <<keysIsList, running, display, stack, unregistered, runLog,
                 got, iter, quitIter, runs>>


\* -------------------------------------------------------- EventManager.Post
\* `for listener in self.listeners.keys()`: the generator's dictionary iterator
\* raises RuntimeError when the dictionary's size is no longer the one it
\* remembers; a list (keysIsList) is unaffected.
SizeChanged(f) == ~keysIsList /\ Cardinality(listeners) # f.used

\* The listeners the loop can still reach: dead references are skipped.
Reachable(f) == f.todo \cap alive

AtIter == AtTop("Post") /\ Top.pc = "iter"

\* The frame after `listener.Notify( event )` was called on l.
Called(f, l) == [f EXCEPT !.todo = @ \ {l}, !.cur = l, !.count[l] = @ + 1]

Got(l, e) == IF InRun THEN [got EXCEPT ![l][e] = @ + 1] ELSE got

\* An exception leaves every frame of the stack: no frame of the program
\* catches one.  Every iteration guard is released on the way.
Unwound(x, e) ==
  /\ stack' = << >>
  /\ err' = x
  /\ finished' = [i \in 1..Depth |->
                    [stack[Len(stack) - Depth + i] EXCEPT !.pc = "raised"]]
  /\ listeners' = Committed(listeners)
  /\ last' = Label("Raise", None, e, None, None)

KeysChanged ==
  /\ AtIter /\ SizeChanged(Top)
  /\ Unwound("RuntimeError", Top.event)
  /\ UNCHANGED <<keysIsList, obs, alive, running, display, unregistered, runLog, got,
                 iter, quitIter, quitPosts, runs>>

\* The loop is exhausted: Post returns to its caller.
PostReturn ==
  /\ AtIter /\ ~SizeChanged(Top) /\ Reachable(Top) = {}
  /\ stack' = Pop(stack)
  /\ finished' = <<[Top EXCEPT !.pc = "returned"]>>
  /\ listeners' = IF ~keysIsList /\ Depth = 1 THEN Committed(listeners) ELSE listeners
  /\ last' = Label("Return", None, Top.event, None, None)
  /\ UNCHANGED <<keysIsList, obs, alive, running, display, err, unregistered, runLog,
                 got, iter, quitIter, quitPosts, runs>>

CanCall(l) == AtIter /\ ~SizeChanged(Top) /\ l \in Reachable(Top)

\* (mutant of SpinnerNotify) Quit is ignored
SpinnerNotifyNever(e, r) == r

\* (mutant of SpinnerNotify) the isinstance test is missing
SpinnerNotifyAny(e, r) == FALSE

\* TickController.Notify: `if isinstance( event, QuitEvent ): self.running = False`
SpinnerNotify(e, r) == IF e = Quit THEN FALSE ELSE r

NotifySpinner ==
  /\ CanCall(Spinner)
  /\ running' = SpinnerNotify(Top.event, running)
  /\ quitIter' = IF Top.event = Quit /\ InRun /\ quitIter = 0 THEN iter ELSE quitIter
  /\ stack' = SetTop(stack, Called(Top, Spinner))
  /\ got' = Got(Spinner, Top.event)
  /\ obs' = [obs EXCEPT !.quitSeen = @ \/ Top.event = Quit]
  /\ last' = Label("Notify", Spinner, Top.event, None, None)
  /\ UNCHANGED <<keysIsList, listeners, alive, display, err, finished,
                 unregistered, runLog, iter, quitPosts, runs>>

\* (mutant of Fault) Post catches what Notify raises and goes on
FaultSwallowed(f, x, e) ==
  /\ stack' = SetTop(stack, f)
  /\ last' = Label("Notify", f.cur, e, None, None)
  /\ UNCHANGED <<listeners, err, finished>>

\* listener.Notify( event ) raised x in the Post whose frame is f: neither Post
\* nor Run has a try statement.
Fault(f, x, e) == Unwound(x, e)

\* `if isinstance( event, DrawEvent ): self.drawBackground()`
Paints(e) == e = Draw

\* (mutant of Releases) the view shuts the display down on Quit as well
ReleasesOnQuit(e) == e \in {Quit, QuitCleanup}

\* `if isinstance( event, QuitCleanupEvent ): pygame.quit()`
Releases(e) == e = QuitCleanup

\* PygameView.Notify: drawBackground() on Draw, pygame.quit() on QuitCleanup.
\* Blitting to the window after pygame.quit() raises pygame.error.
NotifyView ==
  /\ CanCall(Pygamev)
  /\ got' = Got(Pygamev, Top.event)
  /\ IF Paints(Top.event) /\ display = "quit"
       THEN /\ Fault(Called(Top, Pygamev), "pygame.error", Top.event)
            /\ obs' = [obs EXCEPT !.fault = "pygame.error"]
            /\ UNCHANGED display
       ELSE /\ display' = IF Releases(Top.event) THEN "quit" ELSE display
            /\ obs' = IF InRun
                        THEN [obs EXCEPT
                                !.paints = IF Paints(Top.event) THEN @ + 1 ELSE @,
                                !.teardowns = IF Releases(Top.event) THEN @ + 1 ELSE @]
                        ELSE obs
            /\ stack' = SetTop(stack, Called(Top, Pygamev))
            /\ last' = Label("Notify", Pygamev, Top.event, None, None)
            /\ UNCHANGED <<listeners, err, finished>>
  /\ UNCHANGED <<keysIsList, alive, running, unregistered, runLog, iter,
                 quitIter, quitPosts, runs>>

Min(a, b) == IF a < b THEN a ELSE b

\* The Quit events listeners may still post in the current top-level call.
Budget == (IF InRun THEN MaxQuitPosts ELSE MaxNested) - quitPosts

\* (mutant of Polls) the input layer is polled on every event
PollsAlways(e) == TRUE

\* `if isinstance( event, UpdateEvent ): for event in pygame.event.get():`
Polls(e) == e = Update

\* (mutant of InputPosts) the test of event.type is missing
InputPostsAll(q, o) == q + o

\* The Posts of one poll that returned q entries of type QUIT and o others:
\* `ev = None; if event.type == QUIT: ev = QuitEvent(); if ev: Post( ev )`.
InputPosts(q, o) == q

\* The QUIT entries one poll may return here.
MayPoll == IF Depth < MaxDepth THEN Min(MaxPolled, Budget) ELSE 0

\* PygameController.Notify: on Update, pygame.event.get() returns the pending
\* input events, q of them QUIT and o of other types; each QUIT is answered by
\* Post( QuitEvent() ). The frame stays in Notify ("notify") with the entries
\* still to be answered.
NotifyInput ==
  /\ CanCall(Pygamec)
  /\ got' = Got(Pygamec, Top.event)
  /\ \E q \in 0..MayPoll, o \in 0..MaxOther :
       LET polls == Polls(Top.event)
           n == IF polls THEN InputPosts(q, o) ELSE 0
       IN  /\ ~polls => q = 0 /\ o = 0
           /\ n <= MayPoll
           /\ obs' = IF polls /\ InRun
                       THEN [obs EXCEPT !.polls = @ + 1, !.polled = @ + q]
                       ELSE obs
           /\ IF n = 0
                THEN /\ stack' = SetTop(stack, Called(Top, Pygamec))
                     /\ last' = Label("Notify", Pygamec, Top.event, None, None)
                     /\ UNCHANGED quitPosts
                ELSE /\ stack' = Push(SetTop(stack, [Called(Top, Pygamec) EXCEPT
                                                      !.pc = "notify",
                                                      !.quits = n - 1,
                                                      !.posts = @ + 1]),
                                      PostFrame(Quit))
                     /\ last' = Label("Notify", Pygamec, Top.event, "Post", Quit)
                     /\ quitPosts' = quitPosts + 1
  /\ UNCHANGED <<keysIsList, listeners, alive, running, display, err, finished,
                 unregistered, runLog, iter, quitIter, runs>>

\* Notify of a test listener l, doing b = <<kind, x>> (see Plain, Mutating,
\* Faulty).
NotifyTest(l, b) ==
  /\ l \in Tests /\ CanCall(l)
  /\ got' = Got(l, Top.event)
  /\ LET f == Called(Top, l)
         k == b[1]
         x == b[2]
     IN  CASE k = "none" ->
                /\ stack' = SetTop(stack, f)
                /\ last' = Label("Notify", l, Top.event, None, None)
                /\ UNCHANGED <<listeners, alive, unregistered, quitPosts, err,
                               finished>>
           [] k = "postQuit" ->
                /\ Depth < MaxDepth /\ Budget > 0
                /\ stack' = Push(SetTop(stack, [f EXCEPT !.pc = "notify",
                                                         !.posts = @ + 1]),
                                 PostFrame(Quit))
                /\ quitPosts' = quitPosts + 1
                /\ last' = Label("Notify", l, Top.event, "Post", Quit)
                /\ UNCHANGED <<listeners, alive, unregistered, err, finished>>
           [] k = "register" ->
                /\ x \in alive
                /\ listeners' = RegisterListener(x)
                /\ unregistered' = unregistered \ {x}
                /\ stack' = MarkMut(SetTop(stack, f), {x})
                /\ last' = Label("Notify", l, Top.event, "Register", x)
                /\ UNCHANGED <<alive, quitPosts, err, finished>>
           [] k = "unregister" ->
                /\ x \in alive
                /\ unregistered' = unregistered \cup {x}
                /\ IF UnregisterListener(x).exc = "none"
                     THEN /\ listeners' = UnregisterListener(x).data
                          /\ stack' = MarkMut(SetTop(stack, f), {})
                          /\ last' = Label("Notify", l, Top.event, "Unregister", x)
                          /\ UNCHANGED <<err, finished>>
                     ELSE Unwound(UnregisterListener(x).exc, Top.event)
                /\ UNCHANGED <<alive, quitPosts>>
           [] k = "drop" ->
                /\ x \in alive /\ x # l /\ x \notin Held
                /\ alive' = alive \ {x}
                /\ listeners' = Reclaimed(x)
                /\ stack' = SetTop(stack, f)
                /\ last' = Label("Notify", l, Top.event, "Release", x)
                /\ UNCHANGED <<unregistered, quitPosts, err, finished>>
           [] k = "raise" ->
                /\ Fault(f, "Fault", Top.event)
                /\ UNCHANGED <<alive, unregistered, quitPosts>>
  /\ obs' = IF b[1] = "raise" THEN [obs EXCEPT !.fault = "Fault"] ELSE obs
  /\ UNCHANGED <<keysIsList, running, display, runLog, iter, quitIter, runs>>

\* (mutant of Resumed) the Posts share one iteration: the nested Post has used
\* it up
ResumedExhausted(f) == [f EXCEPT !.pc = "iter", !.todo = {}]

\* The frame of a Post whose current Notify has returned: the loop of line 76
\* goes on where it was, each Post call iterating over its own keys().
Resumed(f) == [f EXCEPT !.pc = "iter"]

\* A Post called from a Notify has returned: PygameController's loop answers
\* its next QUIT, or Notify returns to the Post that called it.
NotifyResume ==
  /\ AtTop("Post") /\ Top.pc = "notify"
  /\ IF Top.quits > 0
       THEN /\ stack' = Push(SetTop(stack, [Top EXCEPT !.quits = @ - 1,
                                                       !.posts = @ + 1]),
                             PostFrame(Quit))
            /\ quitPosts' = quitPosts + 1
            /\ last' = Label("Resume", Top.cur, Top.event, "Post", Quit)
       ELSE /\ stack' = SetTop(stack, Resumed(Top))
            /\ last' = Label("Resume", Top.cur, Top.event, None, None)
            /\ UNCHANGED quitPosts
  /\ UNCHANGED <<keysIsList, obs, listeners, alive, running, display, err, finished,
                 unregistered, runLog, got, iter, quitIter, runs>>


\* ------------------------------------------------------ TickController.Run
AtRun(pcs) == AtTop("Run") /\ Top.pc \in pcs

\* (mutant of Posted) the first Draw is posted before the Update
PostedDrawFirst(pc) == CASE pc = "update" -> Draw
                         [] pc = "draw1" -> Update
                         [] pc = "draw2" -> Draw
                         [] pc = "cleanup" -> QuitCleanup

\* What Run posts at each of its Post statements, and the statement after it.
Posted(pc) == CASE pc = "update" -> Update
                [] pc = "draw1" -> Draw
                [] pc = "draw2" -> Draw
                [] pc = "cleanup" -> QuitCleanup
Following(pc) == CASE pc = "update" -> "draw1"
                   [] pc = "draw1" -> "tick1"
                   [] pc = "tick1" -> "draw2"
                   [] pc = "draw2" -> "tick2"
                   [] pc = "tick2" -> "while"
                   [] pc = "cleanup" -> "return"

\* (mutant of After) `if not self.running: break` after the first Draw
AfterBreak(pc) == IF ~running /\ pc = "tick1" THEN "while" ELSE Following(pc)

\* The body of the loop has no break and no test of self.running: every
\* statement is followed by the next one.
After(pc) == Following(pc)

\* (mutant of Entered) Run() begins with `self.running = True`
EnteredRunning(r) == TRUE

\* self.running when Run() reaches its loop: Run() assigns nothing before
\* `while self.running:`, the flag is what __init__ and Notify left.
Entered(r) == r

\* spinner.Run() is called.
CallRun ==
  /\ Idle /\ runs < MaxRuns /\ Spinner \in alive
  /\ stack' = <<RunFrame>>
  /\ runs' = runs + 1
  /\ runLog' = << >> /\ iter' = 0 /\ quitIter' = 0
  /\ got' = [l \in Listener |-> [e \in Event |-> 0]]
  /\ err' = "none" /\ finished' = << >> /\ quitPosts' = 0
  /\ running' = Entered(running)
  /\ obs' = [obs EXCEPT !.polls = 0, !.polled = 0, !.paints = 0,
                        !.fault = "none"]
  /\ last' = Label("Call", Spinner, None, "Run", None)
  /\ UNCHANGED <<keysIsList, listeners, alive, display, unregistered>>

\* (mutant of LoopTest) Run returns from inside the loop, past the cleanup
LoopTestNoCleanup(r) == IF r THEN "update" ELSE "return"

\* `while self.running:`; after the loop comes the QuitCleanup broadcast.
LoopTest(r) == IF r THEN "update" ELSE "cleanup"

RunWhile ==
  /\ AtRun({"while"})
  /\ running => iter < MaxIter
  /\ stack' = SetTop(stack, [Top EXCEPT !.pc = LoopTest(running)])
  /\ iter' = IF running THEN iter + 1 ELSE iter
  /\ last' = Label("Run", Spinner, None, "while", None)
  /\ UNCHANGED <<keysIsList, obs, listeners, alive, running, display, err, finished,
                 unregistered, runLog, got, quitIter, quitPosts, runs>>

\* self.evManager.Post( UpdateEvent() | DrawEvent() | QuitCleanupEvent() )
RunPost ==
  /\ AtRun({"update", "draw1", "draw2", "cleanup"})
  /\ stack' = Push(SetTop(stack, [Top EXCEPT !.pc = After(Top.pc)]),
                   PostFrame(Posted(Top.pc)))
  /\ runLog' = Append(runLog, Posted(Top.pc))
  /\ last' = Label("Run", Spinner, Posted(Top.pc), "Post", None)
  /\ UNCHANGED <<keysIsList, obs, listeners, alive, running, display, err, finished,
                 unregistered, got, iter, quitIter, quitPosts, runs>>

\* self.clock.tick(30)
RunTick ==
  /\ AtRun({"tick1", "tick2"})
  /\ stack' = SetTop(stack, [Top EXCEPT !.pc = After(Top.pc)])
  /\ runLog' = Append(runLog, "tick")
  /\ last' = Label("Run", Spinner, None, "tick", None)
  /\ UNCHANGED <<keysIsList, obs, listeners, alive, running, display, err, finished,
                 unregistered, got, iter, quitIter, quitPosts, runs>>

\* Run returns after the QuitCleanup broadcast.
RunReturn ==
  /\ AtRun({"return"})
  /\ stack' = << >>
  /\ last' = Label("Run", Spinner, None, "return", None)
  /\ UNCHANGED <<keysIsList, obs, listeners, alive, running, display, err, finished,
                 unregistered, runLog, got, iter, quitIter, quitPosts, runs>>

\* --------------------------------------------------------- specifications
InitCommon ==
  /\ keysIsList \in BOOLEAN
  /\ running = TRUE
  /\ display = "init"
  /\ stack = << >>
  /\ err = "none"
  /\ last = [op |-> "Init", arg |-> None, event |-> None, call |-> None,
             on |-> None, was |-> FALSE]
  /\ finished = << >>
  /\ unregistered = {}
  /\ runLog = << >>
  /\ got = [l \in Listener |-> [e \in Event |-> 0]]
  /\ iter = 0 /\ quitIter = 0 /\ quitPosts = 0 /\ runs = 0
  /\ obs = NoObs

\* A test harness around the bus: EventManager() and TickController(evManager)
\* are constructed (the TickController registers itself), and two test
\* listeners exist, not yet registered.
Init ==
  /\ InitCommon
  /\ alive = {Spinner} \cup Tests
  /\ listeners = {Spinner}

\* main(), lines 171-175, with one test listener registered as well.
InitMain ==
  /\ InitCommon
  /\ alive = {Pygamec, Spinner, Pygamev, "A"}
  /\ listeners = {Pygamec, Spinner, Pygamev, "A"}

Next ==
  \/ \E l \in Listener : CallRegister(l)
  \/ \E l \in Listener : CallUnregister(l)
  \/ \E e \in Event : CallPost(e)
  \/ \E l \in Listener : Release(l)
  \/ KeysChanged
  \/ PostReturn
  \/ NotifySpinner
  \/ \E l \in Tests, b \in Plain \cup Mutating : NotifyTest(l, b)
  \/ NotifyResume

Spec == Init /\ [][Next]_vars

NextRun ==
  \/ CallRun
  \/ RunWhile
  \/ RunPost
  \/ RunTick
  \/ RunReturn
  \/ PostReturn
  \/ NotifySpinner
  \/ NotifyView
  \/ NotifyInput
  \/ \E l \in Tests, b \in Plain : NotifyTest(l, b)
  \/ NotifyResume

SpecRun == InitMain /\ [][NextRun]_vars

\* The composition of main() under a test harness that, between the
\* construction of the TickController and its one Run() call, posts events on
\* the bus and unregisters the TickController; listener "A" records or raises.
Quiet == {<<"none", None>>}
PreRunPost(e) == runs = 0 /\ CallPost(e)
PreRunUnregister == runs = 0 /\ CallUnregister(Spinner)
FirstRun == runs = 0 /\ CallRun

NextLoop ==
  \/ \E e \in Event : PreRunPost(e)
  \/ PreRunUnregister
  \/ FirstRun
  \/ RunWhile
  \/ RunPost
  \/ RunTick
  \/ RunReturn
  \/ PostReturn
  \/ NotifySpinner
  \/ NotifyView
  \/ NotifyInput
  \/ \E l \in Tests, b \in Quiet \cup Faulty : NotifyTest(l, b)
  \/ NotifyResume

SpecLoop == InitMain /\ [][NextLoop]_vars

\* main() as it is, lines 170-177: the three listeners on one bus, and one
\* call of spinner.Run().
InitExact ==
  /\ InitCommon
  /\ alive = {Pygamec, Spinner, Pygamev}
  /\ listeners = {Pygamec, Spinner, Pygamev}

NextMain ==
  \/ FirstRun
  \/ RunWhile
  \/ RunPost
  \/ RunTick
  \/ RunReturn
  \/ PostReturn
  \/ NotifySpinner
  \/ NotifyView
  \/ NotifyInput
  \/ NotifyResume

SpecMain == InitExact /\ [][NextMain]_vars

\* One thread runs main(): whenever it has a next step it takes one.
SpecMainFair == SpecMain /\ WF_vars(NextMain)


\* ================================================================ claims
\* The Post calls in progress, those that ended last, and both.
Ongoing == {stack[i] : i \in PostFrames}
Ended == {finished[i] : i \in DOMAIN finished}
Calls == Ongoing \cup Ended

\* C1: one call Post(e) invokes Notify(e) exactly once on each listener that is
\* registered and still live, and on no other object: no call ever notifies a
\* listener twice or one that was not registered when it began; a call that
\* returned has notified every listener registered at its start and still
\* alive; and a call fails only when a Notify changed the registry meanwhile
\* (the matter of C9).
C1_PostNotifiesEachOnce ==
  /\ \A f \in Calls : \A l \in Listener :
       /\ f.count[l] <= 1
       /\ f.count[l] = 1 => l \in f.entry
  /\ \A f \in Ended :
       /\ f.pc = "returned" => \A l \in f.entry \cap alive : f.count[l] = 1
       /\ ~f.mut => f.pc = "returned"

\* A Post over two registered listeners returned, a third live object was left alone.
C1_Witness ==
  \E f \in Ended :
    /\ f.pc = "returned" /\ f.event = Draw
    /\ f.entry = {Spinner, "A"} /\ "B" \in alive
    /\ f.count = [l \in Listener |-> IF l \in {Spinner, "A"} THEN 1 ELSE 0]


\* C5: after UnregisterListener(l) has returned and until l is registered again,
\* no Post called in that period invokes l.Notify: a call never notifies a
\* listener that was unregistered when the call began and has not been
\* registered again since.
C5_UnregisteredNotNotified ==
  \A f \in Calls : \A l \in f.excl : f.count[l] = 0

\* A Post returned that notified the registered listeners and left out the
\* TickController, which had been unregistered and is still alive.
C5_Witness ==
  \E f \in Ended :
    /\ f.pc = "returned"
    /\ Spinner \in f.excl \cap alive /\ f.count[Spinner] = 0
    /\ f.entry # {} /\ \A l \in f.entry : f.count[l] = 1

\* C6: registering a listener that is already registered leaves the registry
\* unchanged and raises nothing; however often a listener was registered, no
\* Post notifies it more than once, and one UnregisterListener removes it.
C6_RegisterIdempotent ==
  [][/\ (last'.call = "Register" /\ last'.was)
          => (listeners' = listeners /\ err' = "none")
     /\ last'.call = "Unregister" => last'.on \notin listeners'
     /\ \A i \in DOMAIN stack' : \A l \in Listener : stack'[i].count[l] <= 1
    ]_vars

\* A listener that was registered has just been registered again.
C6_Witness ==
  /\ last.call = "Register" /\ last.was
  /\ last.on \in listeners /\ Cardinality(listeners) >= 2

\* C7: UnregisterListener of a listener that is not registered raises nothing
\* and leaves the registry unchanged (no Register/UnregisterListener call ever
\* raises KeyError), and a Post on an empty registry returns having called no
\* Notify.
C7_RegistrationTotal ==
  [][/\ (last'.call = "Unregister" /\ ~last'.was)
          => (listeners' = listeners /\ err' = "none")
     /\ err' # "KeyError"
     /\ \A i \in DOMAIN finished' :
          finished'[i].entry = {}
            => (finished'[i].pc = "returned" /\ finished'[i].count = ZeroCount)
    ]_vars

\* The sole listener was unregistered, then a Post returned with nothing called.
C7_Witness ==
  \E f \in Ended :
    /\ f.entry = {} /\ f.pc = "returned" /\ f.count = ZeroCount
    /\ f.excl = {Spinner} /\ alive = {Spinner} \cup Tests
    /\ listeners = {} /\ err = "none"

\* C8: the registry holds listeners weakly.  Outside an iteration the registry
\* holds no reclaimed listener, though nobody unregistered it; a Post called
\* after a listener was reclaimed never notifies it, and (unless a Notify
\* changes the registry meanwhile) returns having notified every other
\* registered listener exactly once.
C8_WeakRegistry ==
  /\ ~Iterating => listeners \subseteq alive
  /\ \A f \in Calls : \A l \in f.gone : f.count[l] = 0
  /\ \A f \in Ended :
       (f.gone # {} /\ ~f.mut)
         => (f.pc = "returned" /\ \A l \in f.entry \cap alive : f.count[l] = 1)

\* The TickController, registered and never unregistered, was reclaimed; a
\* later Post returned having notified the two other listeners.
C8_Witness ==
  \E f \in Ended :
    /\ f.pc = "returned"
    /\ Spinner \in f.gone /\ Spinner \notin f.excl
    /\ f.entry = Tests /\ \A l \in Tests : f.count[l] = 1
    /\ f.count[Spinner] = 0

\* C9: a Post during which a Notify called RegisterListener or
\* UnregisterListener completes without error and has notified, exactly once,
\* every listener that was registered when it began.
C9_MutationDuringPostSafe ==
  \A f \in Ended :
    f.mut => (f.pc = "returned" /\ \A l \in f.entry : f.count[l] = 1)

\* C10: running changes only in the step in which TickController.Notify is
\* called with a Quit event, and only from TRUE to FALSE.
C10_RunningOnlyQuit ==
  [][running' # running
       => /\ running /\ ~running'
          /\ last'.op = "Notify" /\ last'.arg = Spinner /\ last'.event = Quit
    ]_vars

\* A Quit has just been delivered to the TickController, which stopped.
C10_Witness ==
  /\ ~running
  /\ last.op = "Notify" /\ last.arg = Spinner /\ last.event = Quit


\* ------------------------------------------------------------ Run's claims
Count(seq, x) == Cardinality({i \in DOMAIN seq : seq[i] = x})
Pattern == <<Update, Draw, "tick", Draw, "tick">>
IsLoopEvent(x) == x # QuitCleanup
LoopLog == SelectSeq(runLog, IsLoopEvent)
\* Run() is between two iterations, or has left its loop, or has returned.
AtBoundary ==
  /\ runs > 0 /\ err = "none"
  /\ Idle \/ (InRun /\ stack[1].pc \in {"while", "cleanup", "return"})
LoopLeft ==
  /\ runs > 0 /\ err = "none"
  /\ Idle \/ (InRun /\ stack[1].pc \in {"cleanup", "return"})
Returned == runs > 0 /\ err = "none" /\ Idle

\* C2: what Run() does in its loop follows, in every iteration, the order
\* Update, Draw, clock advance, Draw, clock advance; after k completed
\* iterations the recording listener "A", registered throughout, has received
\* exactly k Update and 2k Draw events.
C2_LoopCadence ==
  /\ \A i \in DOMAIN LoopLog : LoopLog[i] = Pattern[((i - 1) % 5) + 1]
  /\ AtBoundary => /\ Len(LoopLog) = 5 * iter
                   /\ got["A"][Update] = iter
                   /\ got["A"][Draw] = 2 * iter

\* Run() returned after two full iterations.
C2_Witness ==
  /\ Returned /\ iter = 2
  /\ Len(LoopLog) = 10 /\ got["A"][Update] = 2 /\ got["A"][Draw] = 4

\* C3: when Quit reaches the TickController during iteration N of Run(), the
\* N-th Update is the last one broadcast, and when the loop is left that
\* iteration has broadcast both of its Draws and advanced the clock twice:
\* N Update, 2N Draw, 2N clock advances.
C3_QuitFinishesTick ==
  quitIter > 0 =>
    /\ iter = quitIter /\ Count(runLog, Update) = quitIter
    /\ LoopLeft => /\ Count(runLog, Draw) = 2 * quitIter
                   /\ Count(runLog, "tick") = 2 * quitIter

\* Quit arrived in the second iteration; Run() returned after 2 Update, 4 Draw.
C3_Witness ==
  /\ Returned /\ quitIter = 2
  /\ Count(runLog, Update) = 2 /\ Count(runLog, Draw) = 4
  /\ Count(runLog, "tick") = 4

\* C4: Run() broadcasts QuitCleanup at most once, only after its loop has
\* stopped, as the last thing it broadcasts (right after the final
\* iteration's second Draw and clock advance), and exactly once by the time it
\* returns.
C4_CleanupOnce ==
  /\ Count(runLog, QuitCleanup) <= 1
  /\ Count(runLog, QuitCleanup) = 1 =>
       /\ runLog[Len(runLog)] = QuitCleanup
       /\ ~running
       /\ InRun => stack[1].pc = "return"
       /\ Len(runLog) > 1 => /\ runLog[Len(runLog) - 1] = "tick"
                             /\ runLog[Len(runLog) - 2] = Draw
  /\ Returned => Count(runLog, QuitCleanup) = 1

\* Quit arrived in the very first iteration, listeners posted two Quit events,
\* and Run() returned with its one QuitCleanup.
C4_Witness ==
  /\ Returned /\ runs = 1 /\ quitIter = 1 /\ quitPosts >= 2
  /\ Count(runLog, QuitCleanup) = 1 /\ Len(runLog) = 6


\* C11: when Run() is invoked (for the first time) the loop is in state
\* Running, whatever was broadcast on the bus since the TickController was
\* constructed, and the first iteration takes place: Run() does not leave its
\* loop before it has completed an iteration.
C11_RunningAtRun ==
  /\ (last.op = "Call" /\ last.call = "Run" /\ runs = 1) => running
  /\ (runs = 1 /\ LoopLeft) => iter >= 1

\* C12: the loop stops only because of Quit. Where no listener fails, Run()
\* broadcasts QuitCleanup and returns only after a Quit event has been
\* delivered to the TickController; as long as none has been delivered Run()
\* stays in its loop with running true, so every loop test starts another
\* iteration.
C12_StopsOnlyOnQuit ==
  /\ Count(runLog, QuitCleanup) > 0 => obs.quitSeen
  /\ Returned => obs.quitSeen
  /\ (runs > 0 /\ err = "none" /\ ~obs.quitSeen) =>
       /\ InRun /\ stack[1].pc \notin {"cleanup", "return"}
       /\ running

\* One whole iteration went by without a Quit, the second one delivered a Quit
\* to the TickController, and Run() returned after its QuitCleanup.
C12_Witness ==
  /\ Returned /\ obs.quitSeen /\ quitIter = 2
  /\ runLog[Len(runLog)] = QuitCleanup

\* C13: in the composition of main(), once the input layer has reported a
\* quit signal to a poll, under fair progress of the one thread the
\* TickController stops, QuitCleanup is broadcast and Run() returns.
C13_QuitTerminates ==
  (obs.polled > 0) ~> (Returned /\ ~running /\ Count(runLog, QuitCleanup) = 1)

\* The second poll returned a QUIT entry, and Run() has returned.
C13_Witness ==
  /\ Returned /\ ~running /\ obs.polled > 0 /\ obs.polls = 2
  /\ Count(runLog, QuitCleanup) = 1

\* C14: an exception raised by a listener's Notify during a Post is not
\* swallowed: it ends that Post and every Post around it and reaches the
\* outermost caller; when Run() issued the Post, Run() is aborted with it, so
\* the faulting broadcast is the last thing Run() broadcast.
C14_FaultPropagates ==
  obs.fault # "none" =>
    /\ Idle /\ err = obs.fault
    /\ finished # << >>
    /\ \A f \in Ended : f.pc = "raised"
    /\ runs > 0 => /\ runLog # << >>
                   /\ finished[1].event = runLog[Len(runLog)]

\* Listener "A" raised during the first Draw of Run()'s first iteration.
C14_Witness ==
  /\ obs.fault = "Fault" /\ runs = 1 /\ Idle
  /\ runLog = <<Update, Draw>>

\* QUIT entries polled by the Notify calls in progress and not yet answered.
RECURSIVE Unanswered(_)
Unanswered(i) ==
  IF i = 0 THEN 0
  ELSE Unanswered(i - 1) + (IF i \in PostFrames THEN stack[i].quits ELSE 0)

\* C15: the PygameController polls the input layer exactly once per Update it
\* is notified of and on no other kind of event; it posts one Quit for each
\* quit signal a poll returned and none otherwise; so every Quit broadcast
\* takes place inside the delivery of an Update to the PygameController.
C15_InputPolling ==
  /\ obs.polls = got[Pygamec][Update]
  /\ quitPosts + Unanswered(Len(stack)) = obs.polled
  /\ \A i \in PostFrames :
       stack[i].event = Quit =>
         /\ i - 1 \in PostFrames
         /\ stack[i - 1].event = Update /\ stack[i - 1].pc = "notify"
         /\ stack[i - 1].cur = Pygamec

\* The first poll returned no quit signal and no Quit was posted; the second
\* returned one, and its Quit is being broadcast inside the Update.
C15_Witness ==
  /\ obs.polls = 2 /\ obs.polled = 1 /\ quitPosts = 1
  /\ Depth = 2 /\ Top.event = Quit /\ got[Pygamec][Quit] = 0

\* C16: for the kinds of event a listener has no interest in, its Notify is a
\* no-op and not an error: TickController.Notify leaves running as it is on
\* Update, Draw and QuitCleanup; PygameView.Notify neither repaints nor releases
\* the display on Update and Quit; PygameController.Notify neither polls nor
\* posts on Draw, Quit and QuitCleanup; and no Notify of the three changes the
\* registry or raises.
C16_NotifyIgnoresOthers ==
  [][ /\ last'.op # "Raise"
      /\ last'.op = "Notify" =>
           /\ (last'.arg = Spinner /\ last'.event \in {Update, Draw, QuitCleanup})
                => running' = running
           /\ (last'.arg = Pygamev /\ last'.event \in {Update, Quit})
                => /\ display' = display
                   /\ obs'.paints = obs.paints
                   /\ obs'.teardowns = obs.teardowns
           /\ (last'.arg = Pygamec /\ last'.event \in {Draw, Quit, QuitCleanup})
                => /\ obs'.polls = obs.polls
                   /\ quitPosts' = quitPosts
                   /\ last'.call = None
                   /\ Len(stack') = Len(stack)
           /\ last'.arg \in {Spinner, Pygamev, Pygamec}
                => listeners' = listeners /\ err' = "none"
    ]_vars

\* Run() has returned after every listener was handed every kind of event.
C16_Witness ==
  /\ Returned
  /\ \A l \in {Spinner, Pygamev, Pygamec} : \A e \in Event : got[l][e] >= 1

\* C17: broadcast is synchronous, re-entrant fan-out. A Quit posted by a
\* listener while it handles Update has been delivered once to every registered
\* listener, and has set running false, when that Post(Quit) returns, and then
\* the enclosing Post(Update) has not returned: it is still inside the Notify
\* that posted.  The enclosing Post(Update) afterwards still delivers the
\* Update exactly once to every listener.  A Post returns only when it has
\* nobody left to notify, and a Post below another on the stack is inside a
\* Notify.
C17_ReentrantFanOut ==
  /\ (last.op = "Return" /\ last.event = Quit /\ Depth >= 1
      /\ Top.event = Update) =>
       /\ \A f \in Ended : /\ f.event = Quit /\ f.pc = "returned"
                            /\ f.entry = Registered
                            /\ \A l \in f.entry : f.count[l] = 1
       /\ Spinner \in Registered => ~running
       /\ Top.pc = "notify" /\ Top.posts >= 1
  /\ \A f \in Ended :
       (f.event = Update /\ f.pc = "returned") =>
         /\ \A l \in f.entry : f.count[l] = 1
         /\ f.posts >= 1 => ~running
  /\ \A f \in Ended : f.pc = "returned" => f.todo = {}
  /\ \A i \in PostFrames : i < Len(stack) => stack[i].pc = "notify"

\* The Quit posted inside the Update has been broadcast and stopped the loop;
\* the Post(Update) goes on with listeners it has not yet notified.
C17_Witness ==
  /\ Depth = 1 /\ Top.event = Update /\ Top.pc = "iter"
  /\ Top.posts >= 1 /\ ~running
  /\ Top.todo # {} /\ Spinner \in Top.todo

\* C18: in the composition of main() the PygameView is torn down exactly once:
\* it releases the display at most once, only when Run() has left its loop and
\* broadcast QuitCleanup, exactly once by the time Run() has returned, and it
\* never repaints once the display is released.
C18_OneTeardown ==
  [][ /\ obs'.teardowns <= 1
      /\ (display' = "quit") = (obs'.teardowns = 1)
      /\ obs'.teardowns = 1 => /\ ~running' /\ LoopLeft'
                               /\ Count(runLog', QuitCleanup) = 1
      /\ Returned' => obs'.teardowns = 1
      /\ display = "quit" => obs'.paints = obs.paints
      /\ obs'.fault = "none"
    ]_vars

\* After two iterations (four repaints) Run() returned; the display was
\* released once.
C18_Witness ==
  /\ Returned /\ obs.teardowns = 1 /\ display = "quit"
  /\ obs.paints = 4 /\ got[Pygamev][QuitCleanup] = 1

\* C19: the loop cannot be restarted: a Run() invoked after Run() has returned
\* performs no iteration and broadcasts neither Update nor Draw (it goes
\* straight to its QuitCleanup broadcast).
C19_NotRestartable ==
  runs >= 2 =>
    /\ ~running /\ iter = 0
    /\ Count(runLog, Update) = 0 /\ Count(runLog, Draw) = 0
    /\ \A l \in Listener : got[l][Update] = 0 /\ got[l][Draw] = 0

\* The second Run() has returned; all it broadcast was QuitCleanup.
C19_Witness ==
  /\ runs = 2 /\ Returned /\ runLog = <<QuitCleanup>>
  /\ got[Spinner][QuitCleanup] = 1

\* C20: a Quit stops the loop only if it reaches the TickController. While a
\* Post(Quit) that began with the TickController out of the registry is
\* executing, running does not change and the TickController is not notified;
\* and a loop test of Run() that finds running true starts another iteration,
\* whatever Quit events were broadcast before it.
C20_QuitMustReach ==
  [][ /\ (AtTop("Post") /\ Top.event = Quit /\ Spinner \notin Top.entry) =>
           /\ running' = running
           /\ obs'.quitSeen = obs.quitSeen
           /\ got'[Spinner] = got[Spinner]
      /\ (AtRun({"while"}) /\ running /\ InRun') =>
           /\ stack'[1].pc = "update"
           /\ iter' = iter + 1
    ]_vars

\* The TickController was unregistered before Run(); the Quit posted in the
\* first iteration reached the other listeners, running is still true and
\* Run() is in its second iteration.
C20_Witness ==
  /\ InRun /\ iter = 2 /\ running /\ Spinner \notin listeners
  /\ got[Pygamev][Quit] >= 1 /\ got[Spinner][Quit] = 0
  /\ Count(runLog, Update) = 2

====
